---- MODULE Spec2Model ----
(***************************************************************************)
(* Employee Directory (User-Management-Dashboard): the session state of    *)
(* App.tsx, the EmployeeForm component state, the filter -> sort ->        *)
(* paginate pipeline and the asynchronous fetch / create / update / delete *)
(* calls against the API service.                                          *)
(*                                                                         *)
(* Strings are sequences of UTF-16 code units (65 = 'A', 97 = 'a',         *)
(* 32 = ' '), so that toLowerCase, trim, includes and the < comparison of  *)
(* JavaScript strings are computed, not assumed.  A nullable value         *)
(* (error, sortConfig, editingEmployee) is a sequence of length 0 or 1.    *)
(***************************************************************************)
EXTENDS Integers, Sequences, FiniteSets

VARIABLES
    employees,          \* App.tsx:28  Employee[]
    loading,            \* App.tsx:29
    error,              \* App.tsx:30  <<>> (null) or <<ApiError>>
    retrying,           \* App.tsx:31
    showForm,           \* App.tsx:34
    editingEmployee,    \* App.tsx:35  <<>> (null) or <<Employee>>
    formLoading,        \* App.tsx:36
    searchTerm,         \* App.tsx:39
    departmentFilter,   \* App.tsx:40
    sortConfig,         \* App.tsx:43  <<>> (null) or <<[key, direction]>>
    currentPage,        \* App.tsx:46
    pageSize,           \* App.tsx:47
    formData,           \* EmployeeForm.tsx:24
    errors,             \* EmployeeForm.tsx:31
    touched,            \* EmployeeForm.tsx:32  set of touched fields
    submitAttempted,    \* EmployeeForm.tsx:33
    remote,             \* what GET /users of the remote source answers
    fetches,            \* number of getEmployees calls in flight
    saves,              \* create/update calls in flight, with their closures
    deletes,            \* delete calls in flight, with the record captured
    calls               \* API requests issued so far, by kind

vars == <<employees, loading, error, retrying, showForm, editingEmployee,
          formLoading, searchTerm, departmentFilter, sortConfig, currentPage,
          pageSize, formData, errors, touched, submitAttempted, remote,
          fetches, saves, deletes, calls>>

sessionVars == <<loading, error, retrying, showForm, editingEmployee, formLoading>>
viewVars    == <<searchTerm, departmentFilter, sortConfig, currentPage, pageSize>>
formVars    == <<formData, errors, touched, submitAttempted>>
callVars    == <<remote, fetches, saves, deletes, calls>>

(***************************************************************************)
(* Bounds of the model.                                                    *)
(***************************************************************************)
MaxMany  == 21       \* records in the largest generated collection
MaxFetches == 2      \* getEmployees requests issued in one behaviour
MaxSaves   == 1      \* create and update requests issued in one behaviour
MaxDeletes == 1      \* delete requests issued in one behaviour
MaxLen     == 3      \* code units of a generated field value

(***************************************************************************)
(* JavaScript string primitives.                                           *)
(***************************************************************************)
Min(S) == CHOOSE x \in S : \A y \in S : x <= y
Max(S) == CHOOSE x \in S : \A y \in S : x >= y

\* String.prototype.toLowerCase on the code units used here (ASCII letters).
ToLowerCase(s) ==
    [i \in 1..Len(s) |-> IF s[i] \in 65..90 THEN s[i] + 32 ELSE s[i]]

\* White space and line terminators removed by String.prototype.trim.
IsWhiteSpace(c) == c \in {9, 10, 11, 12, 13, 32, 160}

Trim(s) ==
    LET keep == {i \in 1..Len(s) : ~IsWhiteSpace(s[i])}
    IN  IF keep = {} THEN <<>> ELSE SubSeq(s, Min(keep), Max(keep))

\* String.prototype.includes: t occurs in s as a contiguous substring.
Includes(s, t) ==
    \E i \in 0..(Len(s) - Len(t)) : SubSeq(s, i + 1, i + Len(t)) = t

\* The < of two JavaScript strings: lexicographic on code units.
StrLess(a, b) ==
    \E k \in 0..Min({Len(a), Len(b)}) :
        /\ SubSeq(a, 1, k) = SubSeq(b, 1, k)
        /\ \/ k = Len(a) /\ k < Len(b)
           \/ k < Len(a) /\ k < Len(b) /\ a[k + 1] < b[k + 1]

(***************************************************************************)
(* Types (types/Employee.ts).  An Employee keeps the fields the program    *)
(* reads: id, name, username, email, phone and company.name.               *)
(***************************************************************************)
SortKeys   == {"id", "name", "email", "phone", "department"}
Directions == {"asc", "desc"}
SortConfigs == {<<>>} \cup {<<[key |-> k, direction |-> d]>> : k \in SortKeys, d \in Directions}

pageSizeOptions == {10, 25, 50, 100}

Employee(i, n, u, e, p, c) ==
    [id |-> i, name |-> n, username |-> u, email |-> e, phone |-> p, company |-> c]

(***************************************************************************)
(* Record collections the remote source may hold.                          *)
(***************************************************************************)
DeptIT    == <<73, 84>>                  \* "IT"
DeptSales == <<83, 97, 108, 101, 115>>   \* "Sales"
DeptLegal == <<76, 101, 103, 97, 108>>   \* "Legal"
Phone1    == <<53, 53, 53, 45, 49, 50, 51, 45, 52, 53, 54, 55>>  \* "555-123-4567"

\* Three records in the shape of the test suite's mockEmployees:
\* Le(anne), Er(vin), Cl(ementine); the last one has no company name.
Mock3 ==
    << Employee(1, <<76, 101>>, <<66, 114, 101, 116>>, <<97, 64, 98, 46, 99>>, Phone1, DeptIT),
       Employee(2, <<69, 114>>, <<97, 110, 116>>,      <<99, 64, 98, 46, 99>>, Phone1, DeptSales),
       Employee(3, <<67, 108>>, <<115, 97, 109>>,      <<98, 64, 98, 46, 99>>, Phone1, <<>>) >>

\* Names that differ only in letter case, ids out of order, one department
\* name that differs from another only in case ("it" / "IT").
Ties ==
    << Employee(3, <<97, 110, 110>>, <<117, 51>>, <<122, 64, 98, 46, 99>>, Phone1, DeptIT),
       Employee(1, <<65, 78, 78>>,   <<117, 49>>, <<89, 64, 98, 46, 99>>,  Phone1, <<105, 116>>),
       Employee(4, <<66, 111, 98>>,  <<117, 52>>, <<121, 64, 98, 46, 99>>, Phone1, DeptIT),
       Employee(2, <<65, 110, 110>>, <<117, 50>>, <<90, 64, 98, 46, 99>>,  Phone1, DeptSales) >>

\* n records "E01", "E02", ... as the test suite's manyEmployees.
Digits2(i) == <<48 + (i \div 10), 48 + (i % 10)>>
Many(n) ==
    [i \in 1..n |-> Employee(i, <<69>> \o Digits2(i), <<66, 114, 101, 116>>,
                             <<101>> \o Digits2(i) \o <<64, 98, 46, 99>>, Phone1,
                             IF i % 2 = 0 THEN DeptIT ELSE DeptSales)]

\* Collection sizes around the page boundaries of the smallest page size.
ManySizes == {0, 10, 11, MaxMany}

Datasets == {Mock3, Ties} \cup {Many(n) : n \in ManySizes}

\* Search terms the user types: "", "  ", " E ", "it", "zz".
SearchTerms == {<<>>, <<32, 32>>, <<32, 69, 32>>, <<105, 116>>, <<122, 122>>}

(***************************************************************************)
(* apiService.getEmployees: every record's company name defaults to        *)
(* 'General'.                                                              *)
(***************************************************************************)
General == <<71, 101, 110, 101, 114, 97, 108>>

GetEmployees(data) ==
    [i \in 1..Len(data) |->
        [data[i] EXCEPT !.company = IF data[i].company = <<>> THEN General
                                    ELSE data[i].company]]

(***************************************************************************)
(* FilterStage: filteredEmployees (App.tsx:101-124).                       *)
(***************************************************************************)
MatchesSearch(employee, term) ==
    \/ Includes(ToLowerCase(employee.name), term)
    \/ Includes(ToLowerCase(employee.email), term)
    \/ Includes(ToLowerCase(employee.company), term)
    \/ Includes(ToLowerCase(employee.phone), term)
    \/ Includes(ToLowerCase(employee.username), term)

SearchFilter(emps, term) ==
    LET t == Trim(ToLowerCase(term))
        Keep(e) == MatchesSearch(e, t)
    IN  IF term # <<>> THEN SelectSeq(emps, Keep) ELSE emps

DepartmentFilterMut(emps, dept) ==
    LET Keep(e) == ToLowerCase(e.company) = ToLowerCase(dept)
    IN  IF dept # <<>> THEN SelectSeq(emps, Keep) ELSE emps

DepartmentFilter(emps, dept) ==
    LET Keep(e) == e.company = dept
    IN  IF dept # <<>> THEN SelectSeq(emps, Keep) ELSE emps

FilterEmployees(emps, term, dept) ==
    DepartmentFilter(SearchFilter(emps, term), dept)

\* availableDepartments (App.tsx:92-95), as the set of option values.
AvailableDepartments(emps) == {emps[i].company : i \in 1..Len(emps)}

(***************************************************************************)
(* SortStage: sortedEmployees (App.tsx:130-183).                           *)
(***************************************************************************)
SortValue(e, key) ==
    CASE key = "department" -> e.company
      [] key = "id"         -> e.id
      [] key = "name"       -> e.name
      [] key = "email"      -> e.email
      [] key = "phone"      -> e.phone

\* A comparator that ignores the direction for equal-looking keys is a slip
\* the stability and ordering claims must detect.
CompareMut(a, b, sc) ==
    IF sc.key = "id"
    THEN a.id - b.id
    ELSE LET strA == SortValue(a, sc.key)
             strB == SortValue(b, sc.key)
         IN  IF StrLess(strA, strB) THEN (IF sc.direction = "asc" THEN -1 ELSE 1)
             ELSE IF StrLess(strB, strA) THEN (IF sc.direction = "asc" THEN 1 ELSE -1)
             ELSE 0

\* The comparator handed to Array.prototype.sort (App.tsx:133-182).
Compare(a, b, sc) ==
    IF sc.key = "id"
    THEN IF sc.direction = "asc" THEN a.id - b.id ELSE b.id - a.id
    ELSE LET strA == ToLowerCase(SortValue(a, sc.key))
             strB == ToLowerCase(SortValue(b, sc.key))
         IN  IF StrLess(strA, strB) THEN (IF sc.direction = "asc" THEN -1 ELSE 1)
             ELSE IF StrLess(strB, strA) THEN (IF sc.direction = "asc" THEN 1 ELSE -1)
             ELSE 0

\* Array.prototype.sort is a stable comparison sort (ECMAScript 2019):
\* insertion of each element after the last element not greater than it.
Insert(sorted, x, sc) ==
    LET after == {i \in 1..Len(sorted) : Compare(sorted[i], x, sc) <= 0}
        k     == IF after = {} THEN 0 ELSE Max(after)
    IN  SubSeq(sorted, 1, k) \o <<x>> \o SubSeq(sorted, k + 1, Len(sorted))

RECURSIVE ArraySort(_, _)
ArraySort(s, sc) ==
    IF s = <<>> THEN <<>>
    ELSE Insert(ArraySort(SubSeq(s, 1, Len(s) - 1), sc), s[Len(s)], sc)

Reverse(s) == [i \in 1..Len(s) |-> s[Len(s) + 1 - i]]

\* Descending order obtained by reversing the ascending order.
SortEmployeesMut(filtered, sort) ==
    IF sort = <<>> THEN filtered
    ELSE IF sort[1].direction = "asc" THEN ArraySort(filtered, sort[1])
    ELSE Reverse(ArraySort(filtered, [sort[1] EXCEPT !.direction = "asc"]))

\* A sort stage that orders by id when no sort is set.
SortEmployeesByIdMut(filtered, sort) ==
    ArraySort(filtered, IF sort = <<>> THEN [key |-> "id", direction |-> "asc"] ELSE sort[1])

SortEmployees(filtered, sort) ==
    IF sort = <<>> THEN filtered ELSE ArraySort(filtered, sort[1])

(***************************************************************************)
(* PaginationStage: paginatedEmployees and totalPages (App.tsx:208-216).   *)
(***************************************************************************)
\* Array.prototype.slice(start, end) with 0-based, end-exclusive indices.
Slice(s, start, end) ==
    LET lo == Min({start, Len(s)})
        hi == Min({end, Len(s)})
    IN  IF hi <= lo THEN <<>> ELSE SubSeq(s, lo + 1, hi)

PaginateMut(sorted, page, size) ==
    Slice(sorted, page * size, page * size + size)

Paginate(sorted, page, size) ==
    LET startIndex == (page - 1) * size
    IN  Slice(sorted, startIndex, startIndex + size)

\* Math.ceil(length / pageSize)
TotalPages(length, size) ==
    IF length % size = 0 THEN length \div size ELSE (length \div size) + 1

filteredEmployees  == FilterEmployees(employees, searchTerm, departmentFilter)
sortedEmployees    == SortEmployees(filteredEmployees, sortConfig)
paginatedEmployees == Paginate(sortedEmployees, currentPage, pageSize)
totalPages         == TotalPages(Len(sortedEmployees), pageSize)

(***************************************************************************)
(* Validator (utils/validation.ts).                                        *)
(***************************************************************************)
IsDigit(c)  == c \in 48..57
IsLetter(c) == c \in 65..90 \/ c \in 97..122
IsAlnum(c)  == IsDigit(c) \/ IsLetter(c)

\* A result that carries its message whether valid or not.
ResultMut(ok, msg) == [isValid |-> ok, message |-> msg]

\* { isValid, message: isValid ? '' : msg } (validation.ts:36-39, 62-65,
\* 87-90, 108-111)
Result(ok, msg) == [isValid |-> ok, message |-> IF ok THEN "" ELSE msg]

\* `${fieldName} is required` (validation.ts:20) for the field names the
\* callers pass and for the default.
FieldNames == {"This field", "Name", "Email", "Field", ""}
RequiredMessage(fieldName) ==
    CASE fieldName = "This field" -> "This field is required"
      [] fieldName = "Name"       -> "Name is required"
      [] fieldName = "Email"      -> "Email is required"
      [] fieldName = "Field"      -> "Field is required"
      [] fieldName = ""           -> " is required"

\* validateRequired (validation.ts:14-22)
ValidateRequired(value, fieldName) ==
    Result(Len(Trim(value)) > 0, RequiredMessage(fieldName))

\* The pieces of s between the occurrences of the code unit sep.
RECURSIVE Split(_, _)
Split(s, sep) ==
    LET at == {i \in 1..Len(s) : s[i] = sep}
    IN  IF at = {} THEN <<s>>
        ELSE <<SubSeq(s, 1, Min(at) - 1)>> \o Split(SubSeq(s, Min(at) + 1, Len(s)), sep)

\* [a-zA-Z0-9.!#$%&'*+/=?^_`{|}~-]
IsEmailLocalChar(c) ==
    IsAlnum(c) \/ c \in {46, 33, 35, 36, 37, 38, 39, 42, 43, 47, 61, 63, 94, 95, 96,
                         123, 124, 125, 126, 45}

\* [a-zA-Z0-9](?:[a-zA-Z0-9-]{0,61}[a-zA-Z0-9])?
IsDomainLabel(l) ==
    /\ Len(l) \in 1..63
    /\ IsAlnum(l[1])
    /\ IsAlnum(l[Len(l)])
    /\ \A i \in 1..Len(l) : IsAlnum(l[i]) \/ l[i] = 45

\* emailRegex (validation.ts:29): local part, '@', labels separated by '.'.
MatchesEmailRegex(s) ==
    LET parts == Split(s, 64)
    IN  /\ Len(parts) = 2
        /\ Len(parts[1]) >= 1
        /\ \A i \in 1..Len(parts[1]) : IsEmailLocalChar(parts[1][i])
        /\ LET labels == Split(parts[2], 46)
           IN  \A i \in 1..Len(labels) : IsDomainLabel(labels[i])

\* validateEmail (validation.ts:28-40)
ValidateEmail(email) ==
    IF Trim(email) = <<>>
    THEN [isValid |-> FALSE, message |-> "Email is required"]
    ELSE Result(MatchesEmailRegex(Trim(email)),
                "Please enter a valid email address (e.g., name@example.com)")

\* /^[\+]?[\d\s\-\(\)\.\+]+$/ (validation.ts:60)
IsPhoneChar(c) == IsDigit(c) \/ IsWhiteSpace(c) \/ c \in {45, 40, 41, 46, 43}
MatchesPhoneRegex(s) ==
    /\ Len(s) >= 1
    /\ \A i \in 1..Len(s) : IsPhoneChar(s[i])

\* A validatePhone that tests the characters before it counts the digits.
ValidatePhoneMut(phone) ==
    IF Trim(phone) = <<>>
    THEN [isValid |-> FALSE, message |-> "Phone number is required"]
    ELSE IF ~MatchesPhoneRegex(Trim(phone))
    THEN [isValid |-> FALSE, message |-> "Please enter a valid phone number"]
    ELSE Result(Cardinality({i \in 1..Len(phone) : IsDigit(phone[i])}) >= 10,
                "Phone number must contain at least 10 digits")

\* validatePhone (validation.ts:46-67)
ValidatePhone(phone) ==
    IF Trim(phone) = <<>>
    THEN [isValid |-> FALSE, message |-> "Phone number is required"]
    ELSE IF Cardinality({i \in 1..Len(phone) : IsDigit(phone[i])}) < 10
    THEN [isValid |-> FALSE, message |-> "Phone number must contain at least 10 digits"]
    ELSE Result(MatchesPhoneRegex(Trim(phone)), "Please enter a valid phone number")

\* /^[a-zA-Z\s\-'\.]+$/ (validation.ts:85)
IsNameChar(c) == IsLetter(c) \/ IsWhiteSpace(c) \/ c \in {45, 39, 46}

\* validateName (validation.ts:72-92)
ValidateName(name) ==
    IF Trim(name) = <<>>
    THEN [isValid |-> FALSE, message |-> "Name is required"]
    ELSE IF Len(Trim(name)) < 2
    THEN [isValid |-> FALSE, message |-> "Name must be at least 2 characters long"]
    ELSE Result(\A i \in 1..Len(Trim(name)) : IsNameChar(Trim(name)[i]),
                "Name can only contain letters, spaces, hyphens, and apostrophes")

\* validDepartments (validation.ts:102-105)
validDepartments ==
    { <<69, 110, 103, 105, 110, 101, 101, 114, 105, 110, 103>>,          \* Engineering
      <<77, 97, 114, 107, 101, 116, 105, 110, 103>>,                     \* Marketing
      <<83, 97, 108, 101, 115>>,                                         \* Sales
      <<72, 117, 109, 97, 110, 32, 82, 101, 115, 111, 117, 114, 99, 101, 115>>,  \* Human Resources
      <<70, 105, 110, 97, 110, 99, 101>>,                                \* Finance
      <<79, 112, 101, 114, 97, 116, 105, 111, 110, 115>>,                \* Operations
      <<67, 117, 115, 116, 111, 109, 101, 114, 32, 83, 117, 112, 112, 111, 114, 116>>,  \* Customer Support
      <<73, 84>>,                                                        \* IT
      <<76, 101, 103, 97, 108>> }                                        \* Legal

\* validateDepartment (validation.ts:97-113)
ValidateDepartment(department) ==
    IF Trim(department) = <<>>
    THEN [isValid |-> FALSE, message |-> "Department is required"]
    ELSE Result(department \in validDepartments, "Please select a valid department")

\* formData.<f> || '' (validation.ts:122-125): a missing field reads as the
\* empty string.
FieldOrEmpty(data, f) == IF f \in DOMAIN data THEN data[f] ELSE <<>>

\* The validator of each field (validation.ts:122-125).
ValidateField(f, value) ==
    CASE f = "name"       -> ValidateName(value)
      [] f = "email"      -> ValidateEmail(value)
      [] f = "phone"      -> ValidatePhone(value)
      [] f = "department" -> ValidateDepartment(value)

\* A validateEmployeeForm that reports the fields of its argument only.
ValidateEmployeeFormMut(data) ==
    [f \in DOMAIN data |-> ValidateField(f, data[f])]

\* validateEmployeeForm (validation.ts:118-128)
ValidateEmployeeForm(data) ==
    [f \in {"name", "email", "phone", "department"} |->
        ValidateField(f, FieldOrEmpty(data, f))]

\* isFormValid (validation.ts:133-135)
IsFormValid(errs) == \A f \in DOMAIN errs : errs[f].isValid

\* The order in which validateEmployeeForm inserts the entries
\* (validation.ts:122-125), which is the order of Object.values.
FieldOrder == <<"name", "email", "phone", "department">>

\* The positions of the invalid entries of errs in the order of its keys.
InvalidAt(errs) ==
    {i \in 1..Len(FieldOrder) :
        FieldOrder[i] \in DOMAIN errs /\ ~errs[FieldOrder[i]].isValid}

\* A getFirstErrorMessage that returns the message of the last invalid entry.
GetFirstErrorMessageMut(errs) ==
    IF InvalidAt(errs) = {} THEN ""
    ELSE errs[FieldOrder[Max(InvalidAt(errs))]].message

\* getFirstErrorMessage (validation.ts:140-143)
GetFirstErrorMessage(errs) ==
    IF InvalidAt(errs) = {} THEN ""
    ELSE errs[FieldOrder[Min(InvalidAt(errs))]].message

(***************************************************************************)
(* Initial values of the component state.                                  *)
(***************************************************************************)
Fields == {"name", "email", "phone", "department"}

EmptyFormData == [name |-> <<>>, email |-> <<>>, phone |-> <<>>, department |-> <<>>]
NoErrors      == [f \in {} |-> FALSE]

\* useState initial values of App (App.tsx:28-47) and of the form, which is
\* not mounted; the mount effect has called loadEmployees (App.tsx:54-56).
Init ==
    /\ remote \in {Mock3, Many(11)}
    /\ employees = <<>>
    /\ loading = TRUE
    /\ error = <<>>
    /\ retrying = FALSE
    /\ showForm = FALSE
    /\ editingEmployee = <<>>
    /\ formLoading = FALSE
    /\ searchTerm = <<>>
    /\ departmentFilter = <<>>
    /\ sortConfig = <<>>
    /\ currentPage = 1
    /\ pageSize = 10
    /\ formData = EmptyFormData
    /\ errors = NoErrors
    /\ touched = {}
    /\ submitAttempted = FALSE
    /\ fetches = 1
    /\ saves = <<>>
    /\ deletes = <<>>
    /\ calls = [fetch |-> 1, save |-> 0, delete |-> 0]

(***************************************************************************)
(* View actions of App.                                                    *)
(***************************************************************************)
\* The form is a modal: while it is shown its backdrop covers the page
\* (EmployeeForm.tsx:156), so the pointer operates the controls of the page
\* only while the form is closed.  (The keyboard still reaches them: see
\* HandleDeleteBehindForm.)
PageOperable == ~showForm

\* A reset effect that does not list sortConfig among its dependencies.
PageAfterEffectMut(prev, next, page) ==
    IF <<prev[1], prev[2]>> # <<next[1], next[2]>> THEN 1 ELSE page

\* useEffect(() => setCurrentPage(1), [searchTerm, departmentFilter,
\* sortConfig]) (App.tsx:238-240): runs after a render in which one of the
\* dependencies <<searchTerm, departmentFilter, sortConfig>> changed from
\* prev to next; page is the value the handler left.
PageAfterEffect(prev, next, page) ==
    IF prev # next THEN 1 ELSE page

effectDeps == <<searchTerm, departmentFilter, sortConfig>>

\* onChange of the search input (App.tsx:424).
SetSearchTerm(term) ==
    /\ PageOperable
    /\ term # searchTerm
    /\ searchTerm' = term
    /\ currentPage' = PageAfterEffect(effectDeps, <<term, departmentFilter, sortConfig>>,
                                      currentPage)
    /\ UNCHANGED <<employees, sessionVars, departmentFilter, sortConfig, pageSize,
                   formVars, callVars>>

\* onChange of the department select (App.tsx:435-444).
SetDepartmentFilter(dept) ==
    /\ PageOperable
    /\ dept # departmentFilter
    /\ departmentFilter' = dept
    /\ currentPage' = PageAfterEffect(effectDeps, <<searchTerm, dept, sortConfig>>,
                                      currentPage)
    /\ UNCHANGED <<employees, sessionVars, searchTerm, sortConfig, pageSize,
                   formVars, callVars>>

\* A toggle that never returns to the unsorted state.
SortAfterClickMut(prevSort, key) ==
    IF prevSort # <<>> /\ prevSort[1].key = key
    THEN IF prevSort[1].direction = "asc"
         THEN <<[key |-> key, direction |-> "desc"]>>
         ELSE <<[key |-> key, direction |-> "asc"]>>
    ELSE <<[key |-> key, direction |-> "asc"]>>

\* The updater handleSort passes to setSortConfig (App.tsx:190-202).
SortAfterClick(prevSort, key) ==
    IF prevSort # <<>> /\ prevSort[1].key = key
    THEN IF prevSort[1].direction = "asc"
         THEN <<[key |-> key, direction |-> "desc"]>>
         ELSE <<>>
    ELSE <<[key |-> key, direction |-> "asc"]>>

\* A handleSort whose sort works on the collection itself.
HandleSortMut(key) ==
    /\ PageOperable
    /\ ~loading
    /\ sortConfig' = SortAfterClick(sortConfig, key)
    /\ currentPage' = PageAfterEffect(effectDeps,
                                      <<searchTerm, departmentFilter,
                                        SortAfterClick(sortConfig, key)>>,
                                      currentPage)
    /\ employees' = SortEmployees(employees, SortAfterClick(sortConfig, key))
    /\ UNCHANGED <<sessionVars, searchTerm, departmentFilter, pageSize,
                   formVars, callVars>>

\* handleSort (App.tsx:189-203), reached from a column header of the table,
\* which is rendered when loading is false (App.tsx:475-489).
HandleSort(key) ==
    /\ PageOperable
    /\ ~loading
    /\ sortConfig' = SortAfterClick(sortConfig, key)
    /\ currentPage' = PageAfterEffect(effectDeps,
                                      <<searchTerm, departmentFilter,
                                        SortAfterClick(sortConfig, key)>>,
                                      currentPage)
    /\ UNCHANGED <<employees, sessionVars, searchTerm, departmentFilter, pageSize,
                   formVars, callVars>>

\* A page change that accepts the page after the last one.
PageAfterChangeMut(page, total, current) ==
    IF page >= 1 /\ page <= total + 1 THEN page ELSE current

\* The bounds check of handlePageChange (App.tsx:222-224).
PageAfterChange(page, total, current) ==
    IF page >= 1 /\ page <= total THEN page ELSE current

\* The Pagination component is rendered when loading is false and there is
\* more than one page (App.tsx:475, 492).
PaginationShown == PageOperable /\ ~loading /\ totalPages > 1

\* handlePageChange (App.tsx:221-225), from the Pagination component.
HandlePageChange(page) ==
    /\ UNCHANGED <<employees, sessionVars, searchTerm, departmentFilter, sortConfig,
                   pageSize, formVars, callVars>>
    /\ PageOperable
    /\ LET total == totalPages
       IN  /\ ~loading /\ total > 1
           /\ currentPage' = PageAfterChange(page, total, currentPage)

\* A page-size change that keeps the page index.
PageAfterSizeChangeMut(page) == page

\* setCurrentPage(1) of handlePageSizeChange (App.tsx:232).
PageAfterSizeChange(page) == 1

\* handlePageSizeChange (App.tsx:230-233), from the page-size select.
HandlePageSizeChange(newPageSize) ==
    /\ UNCHANGED <<employees, sessionVars, searchTerm, departmentFilter, sortConfig,
                   formVars, callVars>>
    /\ newPageSize # pageSize
    /\ PaginationShown
    /\ pageSize' = newPageSize
    /\ currentPage' = PageAfterSizeChange(currentPage)

\* A clear that leaves the sort as it is.
HandleClearFiltersMut ==
    /\ PageOperable
    /\ searchTerm # <<>> \/ departmentFilter # <<>> \/ sortConfig # <<>>
    /\ searchTerm' = <<>>
    /\ departmentFilter' = <<>>
    /\ currentPage' = 1
    /\ UNCHANGED <<employees, sessionVars, sortConfig, pageSize, formVars, callVars>>

\* handleClearFilters (App.tsx:357-362); the button is rendered when a
\* search term, a department filter or a sort is set (App.tsx:448).
HandleClearFilters ==
    /\ PageOperable
    /\ searchTerm # <<>> \/ departmentFilter # <<>> \/ sortConfig # <<>>
    /\ searchTerm' = <<>>
    /\ departmentFilter' = <<>>
    /\ sortConfig' = <<>>
    /\ currentPage' = 1
    /\ UNCHANGED <<employees, sessionVars, pageSize, formVars, callVars>>

ViewAction ==
    \/ \E term \in SearchTerms : SetSearchTerm(term)
    \/ \E dept \in {<<>>} \cup AvailableDepartments(employees) : SetDepartmentFilter(dept)
    \/ \E key \in SortKeys : HandleSort(key)
    \/ \E page \in 0..(totalPages + 1) : HandlePageChange(page)
    \/ \E size \in pageSizeOptions : HandlePageSizeChange(size)
    \/ HandleClearFilters

(***************************************************************************)
(* Fetch (App.tsx:61-87).                                                  *)
(***************************************************************************)
\* The error the API service throws after its retries (api.ts:44-47).
ApiErrors == { [message |-> "Failed to fetch", status |-> 500] }

\* The synchronous part of loadEmployees, up to the await (App.tsx:62-67).
LoadEmployeesStart ==
    /\ loading' = TRUE
    /\ error' = <<>>
    /\ fetches' = fetches + 1
    /\ calls' = [calls EXCEPT !.fetch = @ + 1]

\* The Refresh button (App.tsx:380-388).
Refresh ==
    /\ PageOperable
    /\ ~(loading \/ retrying)
    /\ calls.fetch < MaxFetches
    /\ LoadEmployeesStart
    /\ UNCHANGED <<employees, retrying, showForm, editingEmployee, formLoading,
                   viewVars, formVars, remote, saves, deletes>>

\* handleRetry (App.tsx:84-87), from the banner shown while error is set;
\* its button is disabled while retrying (ErrorBanner.tsx:28-30).
HandleRetry ==
    /\ PageOperable
    /\ error # <<>>
    /\ ~retrying
    /\ calls.fetch < MaxFetches
    /\ retrying' = TRUE
    /\ LoadEmployeesStart
    /\ UNCHANGED <<employees, showForm, editingEmployee, formLoading,
                   viewVars, formVars, remote, saves, deletes>>

\* A resolution of getEmployees that leaves the retrying flag alone.
FetchSucceedsMut ==
    /\ fetches > 0
    /\ fetches' = fetches - 1
    /\ employees' = GetEmployees(remote)
    /\ loading' = FALSE
    /\ UNCHANGED <<error, retrying, showForm, editingEmployee, formLoading,
                   viewVars, formVars, remote, saves, deletes, calls>>

\* getEmployees resolves (App.tsx:67-70, 75-78).
FetchSucceeds ==
    /\ fetches > 0
    /\ fetches' = fetches - 1
    /\ employees' = GetEmployees(remote)
    /\ loading' = FALSE
    /\ retrying' = FALSE
    /\ UNCHANGED <<error, showForm, editingEmployee, formLoading,
                   viewVars, formVars, remote, saves, deletes, calls>>

\* getEmployees rejects (App.tsx:71-78).
FetchFails(apiError) ==
    /\ fetches > 0
    /\ fetches' = fetches - 1
    /\ error' = <<apiError>>
    /\ loading' = FALSE
    /\ retrying' = FALSE
    /\ UNCHANGED <<employees, showForm, editingEmployee, formLoading,
                   viewVars, formVars, remote, saves, deletes, calls>>

\* handleDismissError (App.tsx:350-352)
HandleDismissError ==
    /\ PageOperable
    /\ error # <<>>
    /\ error' = <<>>
    /\ UNCHANGED <<employees, loading, retrying, showForm, editingEmployee,
                   formLoading, viewVars, formVars, callVars>>

(***************************************************************************)
(* The form (EmployeeForm.tsx) and its opening and closing by App.         *)
(***************************************************************************)
\* The draft of an employee being edited (EmployeeForm.tsx:53-58).
DraftOf(employee) ==
    [name |-> employee.name, email |-> employee.email, phone |-> employee.phone,
     department |-> employee.company]

\* A validation effect that stops once a submit has been attempted.
ErrorsAfterEffectMut(data, attempted, touch, errs) ==
    IF ~attempted /\ touch # {} THEN ValidateEmployeeForm(data) ELSE errs

\* The validation effect (EmployeeForm.tsx:65-70) after a render with the
\* given form data, submit flag and touched set.
ErrorsAfterEffect(data, attempted, touch, errs) ==
    IF attempted \/ touch # {} THEN ValidateEmployeeForm(data) ELSE errs

\* handleAddEmployee (App.tsx:245-248); the form mounts with its initial
\* state (EmployeeForm.tsx:24-33).
HandleAddEmployee ==
    /\ PageOperable
    /\ editingEmployee' = <<>>
    /\ showForm' = TRUE
    /\ UNCHANGED <<employees, loading, error, retrying, formLoading, viewVars,
                   formVars, callVars>>

\* handleEditEmployee (App.tsx:253-256), from a row of the table; the form
\* mounts and its initialising effect (EmployeeForm.tsx:51-60) copies the
\* employee into the form data, then the validation effect runs.
HandleEditEmployee(employee) ==
    /\ PageOperable
    /\ ~loading
    /\ editingEmployee' = <<employee>>
    /\ showForm' = TRUE
    /\ formData' = DraftOf(employee)
    /\ errors' = ErrorsAfterEffect(formData', submitAttempted, touched, errors)
    /\ UNCHANGED <<employees, loading, error, retrying, formLoading, viewVars,
                   touched, submitAttempted, callVars>>

\* handleInputChange (EmployeeForm.tsx:75-82) and the validation effect; the
\* inputs are disabled while a save is in flight.
HandleInputChange(field, value) ==
    /\ showForm
    /\ ~formLoading
    /\ value # formData[field]
    /\ formData' = [formData EXCEPT ![field] = value]
    /\ touched' = IF Trim(value) # <<>> \/ field \in touched
                  THEN touched \cup {field} ELSE touched
    /\ errors' = ErrorsAfterEffect(formData', submitAttempted, touched', errors)
    /\ UNCHANGED <<employees, sessionVars, viewVars, submitAttempted, callVars>>

\* handleInputBlur (EmployeeForm.tsx:87-89) and the validation effect.
HandleInputBlur(field) ==
    /\ showForm
    /\ ~formLoading
    /\ touched' = touched \cup {field}
    /\ errors' = ErrorsAfterEffect(formData, submitAttempted, touched', errors)
    /\ UNCHANGED <<employees, sessionVars, viewVars, formData, submitAttempted, callVars>>

\* The form unmounts: its state is gone, the next mount starts afresh.
FormUnmounted ==
    /\ formData' = EmptyFormData
    /\ errors' = NoErrors
    /\ touched' = {}
    /\ submitAttempted' = FALSE

\* handleCancel (EmployeeForm.tsx:122-125) and handleFormCancel (App.tsx:342-345).
HandleCancel ==
    /\ showForm
    /\ ~formLoading
    /\ showForm' = FALSE
    /\ editingEmployee' = <<>>
    /\ FormUnmounted
    /\ UNCHANGED <<employees, loading, error, retrying, formLoading, viewVars, callVars>>

\* A submit button that stays enabled while a save is in flight.
IsSubmitDisabledMut == submitAttempted /\ ~IsFormValid(errors)

\* isSubmitDisabled (EmployeeForm.tsx:130)
IsSubmitDisabled == formLoading \/ (submitAttempted /\ ~IsFormValid(errors))

\* A submit that calls onSave whatever the validation says.
HandleSubmitMut ==
    /\ showForm
    /\ ~IsSubmitDisabled
    /\ submitAttempted' = TRUE
    /\ touched' = Fields
    /\ errors' = ValidateEmployeeForm(formData)
    /\ calls.save < MaxSaves
    /\ formLoading' = TRUE
    /\ saves' = Append(saves, [data    |-> formData,
                               editing |-> editingEmployee,
                               known   |-> employees])
    /\ calls' = [calls EXCEPT !.save = @ + 1]
    /\ UNCHANGED <<employees, loading, error, retrying, showForm, editingEmployee,
                   viewVars, formData, remote, fetches, deletes>>

\* handleSubmit (EmployeeForm.tsx:94-117).  A valid form calls onSave, that
\* is handleFormSave up to its await (App.tsx:262-269, 282): the call holds
\* the form data and the editingEmployee and employees of the render it was
\* created in.
HandleSubmit ==
    /\ showForm
    /\ ~IsSubmitDisabled
    /\ submitAttempted' = TRUE
    /\ touched' = Fields
    /\ errors' = ValidateEmployeeForm(formData)
    /\ IF IsFormValid(ValidateEmployeeForm(formData))
       THEN /\ calls.save < MaxSaves
            /\ formLoading' = TRUE
            /\ saves' = Append(saves, [data    |-> formData,
                                       editing |-> editingEmployee,
                                       known   |-> employees])
            /\ calls' = [calls EXCEPT !.save = @ + 1]
       ELSE UNCHANGED <<formLoading, saves, calls>>
    /\ UNCHANGED <<employees, loading, error, retrying, showForm, editingEmployee,
                   viewVars, formData, remote, fetches, deletes>>

(***************************************************************************)
(* Create and update (api.ts:78-148, App.tsx:262-304).                     *)
(***************************************************************************)
\* name.toLowerCase().replace(/\s+/g, '.') (api.ts:81, 123)
RECURSIVE DotSpaces(_)
DotSpaces(s) ==
    IF s = <<>> THEN <<>>
    ELSE IF IsWhiteSpace(s[1])
         THEN LET rest == {i \in 1..Len(s) : ~IsWhiteSpace(s[i])}
              IN  <<46>> \o (IF rest = {} THEN <<>>
                             ELSE DotSpaces(SubSeq(s, Min(rest), Len(s))))
         ELSE <<s[1]>> \o DotSpaces(Tail(s))

UsernameOf(name) == DotSpaces(ToLowerCase(name))

\* A createEmployee that stores the department in lower case.
CreateEmployeeMut(data, id) ==
    Employee(id, data.name, UsernameOf(data.name), data.email, data.phone,
             ToLowerCase(data.department))

\* The record createEmployee returns (api.ts:79-112); its id is replaced by
\* the caller.
CreateEmployee(data, id) ==
    Employee(id, data.name, UsernameOf(data.name), data.email, data.phone, data.department)

\* The record the PUT request carries (api.ts:120-142).
UpdateEmployee(id, data) ==
    Employee(id, data.name, UsernameOf(data.name), data.email, data.phone, data.department)

\* What updateEmployee resolves to: the answer of the remote source as it
\* is (api.ts:144-147).  The remote source echoes the record it was sent;
\* nothing in the service or in the handler holds it to the id requested,
\* so an answer that carries another id is an outcome too.
UpdateAnswers(call) ==
    LET body == UpdateEmployee(call.editing[1].id, call.data)
    IN  {body, [body EXCEPT !.id = @ + 1]}

\* Math.max(...employees.map(e => e.id), 0) (App.tsx:285)
MaxId(emps) == Max({emps[i].id : i \in 1..Len(emps)} \cup {0})

RemoveAt(s, i) == SubSeq(s, 1, i - 1) \o SubSeq(s, i + 1, Len(s))

\* setEmployees(prev => [employeeWithId, ...prev]) (App.tsx:285-289): the id
\* comes from the employees captured when the form was submitted.
CollectionAfterCreate(prev, call) ==
    <<CreateEmployee(call.data, MaxId(call.known) + 1)>> \o prev

\* setEmployees(prev => prev.map(...)) (App.tsx:272-276); { ...emp,
\* ...updatedEmployee } takes every field of the answer.
CollectionAfterUpdate(prev, call, updatedEmployee) ==
    [i \in 1..Len(prev) |->
        IF prev[i].id = call.editing[1].id THEN updatedEmployee ELSE prev[i]]

\* The create or update call resolves (App.tsx:269-296, 301-303); closing
\* the form unmounts it.
SaveSucceeds(i) ==
    /\ i \in 1..Len(saves)
    /\ saves' = RemoveAt(saves, i)
    /\ IF saves[i].editing # <<>>
       THEN \E updatedEmployee \in UpdateAnswers(saves[i]) :
                employees' = CollectionAfterUpdate(employees, saves[i], updatedEmployee)
       ELSE employees' = CollectionAfterCreate(employees, saves[i])
    /\ showForm' = FALSE
    /\ editingEmployee' = <<>>
    /\ formLoading' = FALSE
    /\ FormUnmounted
    /\ UNCHANGED <<loading, error, retrying, viewVars, remote, fetches, deletes, calls>>

\* The create or update call rejects (App.tsx:297-303): the error is
\* rethrown to the form, which logs it (EmployeeForm.tsx:112-115).
SaveFails(i) ==
    /\ i \in 1..Len(saves)
    /\ saves' = RemoveAt(saves, i)
    /\ formLoading' = FALSE
    /\ UNCHANGED <<employees, loading, error, retrying, showForm, editingEmployee,
                   viewVars, formVars, remote, fetches, deletes, calls>>

(***************************************************************************)
(* Delete (EmployeeTable handleDelete, App.tsx:310-337).                   *)
(***************************************************************************)
\* prev.filter(emp => emp.id !== employee.id) (App.tsx:322)
WithoutId(prev, id) ==
    LET Keep(e) == e.id # id
    IN  SelectSeq(prev, Keep)

\* A rollback that appends the record and leaves the order alone.
CollectionAfterRollbackMut(prev, employee) == Append(prev, employee)

\* [...prev, employee].sort((a, b) => a.id - b.id) (App.tsx:331)
CollectionAfterRollback(prev, employee) ==
    ArraySort(Append(prev, employee), [key |-> "id", direction |-> "asc"])

\* A delete that asks for confirmation in the table only.
HandleDeleteMut(employee, confirmedInTable, confirmedInApp) ==
    /\ PageOperable
    /\ ~loading
    /\ IF confirmedInTable
       THEN /\ calls.delete < MaxDeletes
            /\ employees' = WithoutId(employees, employee.id)
            /\ deletes' = Append(deletes, employee)
            /\ calls' = [calls EXCEPT !.delete = @ + 1]
       ELSE UNCHANGED <<employees, deletes, calls>>
    /\ UNCHANGED <<sessionVars, viewVars, formVars, remote, fetches, saves>>

\* The delete button of a row: the table asks for confirmation
\* (part_001:86-92), then handleDeleteEmployee asks again (App.tsx:312-316)
\* and removes the record before the delete call is issued (App.tsx:322-325).
HandleDelete(employee, confirmedInTable, confirmedInApp) ==
    /\ PageOperable
    /\ ~loading
    /\ IF confirmedInTable /\ confirmedInApp
       THEN /\ calls.delete < MaxDeletes
            /\ employees' = WithoutId(employees, employee.id)
            /\ deletes' = Append(deletes, employee)
            /\ calls' = [calls EXCEPT !.delete = @ + 1]
       ELSE UNCHANGED <<employees, deletes, calls>>
    /\ UNCHANGED <<sessionVars, viewVars, formVars, remote, fetches, saves>>

\* deleteEmployee resolves (App.tsx:325-327).
DeleteSucceeds(i) ==
    /\ i \in 1..Len(deletes)
    /\ deletes' = RemoveAt(deletes, i)
    /\ UNCHANGED <<employees, sessionVars, viewVars, formVars, remote, fetches,
                   saves, calls>>

\* deleteEmployee rejects (App.tsx:328-336): the record is put back and the
\* collection sorted by id.
DeleteFails(i, apiError) ==
    /\ i \in 1..Len(deletes)
    /\ deletes' = RemoveAt(deletes, i)
    /\ employees' = CollectionAfterRollback(employees, deletes[i])
    /\ error' = <<apiError>>
    /\ UNCHANGED <<loading, retrying, showForm, editingEmployee, formLoading,
                   viewVars, formVars, remote, fetches, saves, calls>>

(***************************************************************************)
(* The session: the API calls, the form and the pagination controls.       *)
(* The remote source answers every fetch with the same records: it does    *)
(* not persist creates, updates or deletes (part_002:227-235).  The        *)
(* search, filter and sort controls are driven in SpecView below.          *)
(***************************************************************************)
\* The rows of the page shown whose buttons are used: the first and the last.
RowsUsed == LET page == paginatedEmployees
            IN  IF page = <<>> THEN {} ELSE {page[1], page[Len(page)]}

\* Values typed into the form: "Al" for the name, "a@b.c" for the email,
\* "555-123-4567" for the phone, and the option "IT" of the select.
FieldInputs(field) ==
    CASE field = "name"       -> {<<65, 108>>}
      [] field = "email"      -> {<<97, 64, 98, 46, 99>>}
      [] field = "phone"      -> {Phone1}
      [] field = "department" -> {DeptIT}

\* Fields the user leaves without typing.
FieldsBlurred == {"name"}

\* Page sizes chosen in the session: the default and the next option.
PageSizesUsed == {10, 25}

PageAction ==
    \/ \E page \in 0..(totalPages + 1) : HandlePageChange(page)
    \/ \E size \in PageSizesUsed : HandlePageSizeChange(size)

FetchAction ==
    \/ Refresh
    \/ HandleRetry
    \/ FetchSucceeds
    \/ \E apiError \in ApiErrors : FetchFails(apiError)
    \/ HandleDismissError

FormAction ==
    \/ HandleAddEmployee
    \/ \E employee \in RowsUsed : HandleEditEmployee(employee)
    \/ \E field \in Fields : \E value \in FieldInputs(field) : HandleInputChange(field, value)
    \/ \E field \in FieldsBlurred : HandleInputBlur(field)
    \/ HandleCancel
    \/ HandleSubmit
    \/ \E i \in 1..Len(saves) : SaveSucceeds(i)
    \/ \E i \in 1..Len(saves) : SaveFails(i)

DeleteAction ==
    \/ \E employee \in RowsUsed : \E inTable, inApp \in BOOLEAN :
           HandleDelete(employee, inTable, inApp)
    \/ \E i \in 1..Len(deletes) : DeleteSucceeds(i)
    \/ \E i \in 1..Len(deletes) : \E apiError \in ApiErrors : DeleteFails(i, apiError)

Next == PageAction \/ FetchAction \/ FormAction \/ DeleteAction

Spec == Init /\ [][Next]_vars

(***************************************************************************)
(* The pipeline on its own: the session after a successful initial fetch   *)
(* of any of the collections, driven by the view actions.                  *)
(***************************************************************************)
InitView ==
    /\ remote \in Datasets
    /\ employees = GetEmployees(remote)
    /\ loading = FALSE
    /\ error = <<>>
    /\ retrying = FALSE
    /\ showForm = FALSE
    /\ editingEmployee = <<>>
    /\ formLoading = FALSE
    /\ searchTerm = <<>>
    /\ departmentFilter = <<>>
    /\ sortConfig = <<>>
    /\ currentPage = 1
    /\ pageSize = 10
    /\ formData = EmptyFormData
    /\ errors = NoErrors
    /\ touched = {}
    /\ submitAttempted = FALSE
    /\ fetches = 0
    /\ saves = <<>>
    /\ deletes = <<>>
    /\ calls = [fetch |-> 1, save |-> 0, delete |-> 0]

NextView == ViewAction

SpecView == InitView /\ [][NextView]_vars

(***************************************************************************)
(* The validators on their own: the form opened on a record of the remote  *)
(* source whose fields hold generated values, then blurred and submitted,  *)
(* which runs validateEmployeeForm on the draft.                           *)
(***************************************************************************)
\* ' ', '1', 'a', '@', '.', '-'
Alphabet == {32, 49, 97, 64, 46, 45}

\* Every string over the alphabet of at most n code units.
Strings(n) == UNION {[1..k -> Alphabet] : k \in 0..n}

Ones(n) == [i \in 1..n |-> 49]

\* '123-456-abcd', the phone number with invalid characters of the
\* validator's tests.
PhoneWithLetters == <<49, 50, 51, 45, 52, 53, 54, 45, 97, 98, 99, 100>>

\* The malformed addresses of the validator's tests.
MalformedEmails ==
    { <<116, 101, 115, 116, 101, 120, 97, 109, 112, 108, 101, 46, 99, 111, 109>>,   \* testexample.com
      <<116, 101, 115, 116, 64>>,   \* test@
      <<64, 101, 120, 97, 109, 112, 108, 101, 46, 99, 111, 109>>,   \* @example.com
      <<116, 101, 115, 116, 46, 46, 116, 101, 115, 116, 64, 101, 120, 97, 109, 112, 108, 101, 46, 99, 111, 109>>,   \* test..test@example.com
      <<116, 101, 115, 116, 64, 101, 120, 97, 109, 112, 108, 101>>,   \* test@example
      <<116, 101, 115, 116, 32, 64, 101, 120, 97, 109, 112, 108, 101, 46, 99, 111, 109>> }   \* test @example.com

\* Field values: the short strings, strings of nine or ten digits followed
\* by a short string, around the digit count validatePhone asks for, and the
\* inputs of the validator's tests.
ValidatorInputs ==
    Strings(MaxLen)
        \cup {PhoneWithLetters}
        \cup MalformedEmails
        \cup {Ones(9) \o s : s \in Strings(MaxLen - 1)}
        \cup {Ones(10) \o s : s \in Strings(MaxLen - 1)}

\* "Al", "a@b.c", "555-123-4567", "IT"
ValidDraft ==
    [name |-> <<65, 108>>, email |-> <<97, 64, 98, 46, 99>>, phone |-> Phone1,
     department |-> DeptIT]

\* Drafts with one field generated and the others valid, or all four fields
\* the same generated value.
Drafts ==
    {[ValidDraft EXCEPT ![f] = s] : f \in Fields, s \in ValidatorInputs}
        \cup {[f \in Fields |-> s] : s \in ValidatorInputs}

\* The session after the fetch of one record and handleEditEmployee on it
\* (App.tsx:253-256, EmployeeForm.tsx:51-60).
InitValidate ==
    /\ \E d \in Drafts :
           remote = <<Employee(1, d.name, UsernameOf(d.name), d.email, d.phone, d.department)>>
    /\ employees = GetEmployees(remote)
    /\ loading = FALSE
    /\ error = <<>>
    /\ retrying = FALSE
    /\ showForm = TRUE
    /\ editingEmployee = <<employees[1]>>
    /\ formLoading = FALSE
    /\ searchTerm = <<>>
    /\ departmentFilter = <<>>
    /\ sortConfig = <<>>
    /\ currentPage = 1
    /\ pageSize = 10
    /\ formData = DraftOf(employees[1])
    /\ errors = NoErrors
    /\ touched = {}
    /\ submitAttempted = FALSE
    /\ fetches = 0
    /\ saves = <<>>
    /\ deletes = <<>>
    /\ calls = [fetch |-> 1, save |-> 0, delete |-> 0]

NextValidate ==
    \/ \E field \in FieldsBlurred : HandleInputBlur(field)
    \/ HandleSubmit

SpecValidate == InitValidate /\ [][NextValidate]_vars

(***************************************************************************)
(* The add form filled in with a draft, submitted, and the records of the  *)
(* table opened in the edit form.                                          *)
(***************************************************************************)
\* The session after the fetch and handleAddEmployee, with the four fields
\* typed in and none of them left yet (App.tsx:245-248,
\* EmployeeForm.tsx:75-82).
InitCreate ==
    /\ remote \in {<<>>, Mock3}
    /\ employees = GetEmployees(remote)
    /\ loading = FALSE
    /\ error = <<>>
    /\ retrying = FALSE
    /\ showForm = TRUE
    /\ editingEmployee = <<>>
    /\ formLoading = FALSE
    /\ searchTerm = <<>>
    /\ departmentFilter = <<>>
    /\ sortConfig = <<>>
    /\ currentPage = 1
    /\ pageSize = 10
    /\ formData \in Drafts
    /\ errors = NoErrors
    /\ touched = {}
    /\ submitAttempted = FALSE
    /\ fetches = 0
    /\ saves = <<>>
    /\ deletes = <<>>
    /\ calls = [fetch |-> 1, save |-> 0, delete |-> 0]

NextCreate ==
    \/ HandleSubmit
    \/ \E i \in 1..Len(saves) : SaveSucceeds(i)
    \/ \E i \in 1..Len(saves) : SaveFails(i)
    \/ HandleCancel
    \/ \E employee \in RowsUsed : HandleEditEmployee(employee)
    \/ \E field \in FieldsBlurred : HandleInputBlur(field)

SpecCreate == InitCreate /\ [][NextCreate]_vars

(***************************************************************************)
(* An edit and a delete that overlap.  The table stays rendered under the  *)
(* form (App.tsx:482-516); the backdrop covers it for the pointer only:    *)
(* the form does not trap the focus, so the buttons of a row are reached   *)
(* with the keyboard while the form is shown.                              *)
(***************************************************************************)
\* The delete button of a row (part_001:281-282) pressed while the form is
\* shown: handleDelete of the table, then handleDeleteEmployee
\* (App.tsx:310-325).
HandleDeleteBehindForm(employee, confirmedInTable, confirmedInApp) ==
    /\ showForm
    /\ ~loading
    /\ IF confirmedInTable /\ confirmedInApp
       THEN /\ calls.delete < MaxDeletes
            /\ employees' = WithoutId(employees, employee.id)
            /\ deletes' = Append(deletes, employee)
            /\ calls' = [calls EXCEPT !.delete = @ + 1]
       ELSE UNCHANGED <<employees, deletes, calls>>
    /\ UNCHANGED <<sessionVars, viewVars, formVars, remote, fetches, saves>>

\* The session after the fetch of the three records.
InitOverlap ==
    /\ remote = Mock3
    /\ employees = GetEmployees(remote)
    /\ loading = FALSE
    /\ error = <<>>
    /\ retrying = FALSE
    /\ showForm = FALSE
    /\ editingEmployee = <<>>
    /\ formLoading = FALSE
    /\ searchTerm = <<>>
    /\ departmentFilter = <<>>
    /\ sortConfig = <<>>
    /\ currentPage = 1
    /\ pageSize = 10
    /\ formData = EmptyFormData
    /\ errors = NoErrors
    /\ touched = {}
    /\ submitAttempted = FALSE
    /\ fetches = 0
    /\ saves = <<>>
    /\ deletes = <<>>
    /\ calls = [fetch |-> 1, save |-> 0, delete |-> 0]

NextOverlap ==
    \/ \E employee \in RowsUsed : HandleEditEmployee(employee)
    \/ \E field \in Fields : \E value \in FieldInputs(field) : HandleInputChange(field, value)
    \/ HandleSubmit
    \/ \E i \in 1..Len(saves) : SaveSucceeds(i)
    \/ \E i \in 1..Len(saves) : SaveFails(i)
    \/ \E employee \in RowsUsed : \E inTable, inApp \in BOOLEAN :
           HandleDelete(employee, inTable, inApp)
    \/ \E employee \in RowsUsed : \E inTable, inApp \in BOOLEAN :
           HandleDeleteBehindForm(employee, inTable, inApp)
    \/ \E i \in 1..Len(deletes) : DeleteSucceeds(i)
    \/ \E i \in 1..Len(deletes) : \E apiError \in ApiErrors : DeleteFails(i, apiError)

SpecOverlap == InitOverlap /\ [][NextOverlap]_vars

(***************************************************************************)
(* The form-level validator called on a mapping, as the validator's tests  *)
(* call it: the mapping holds any subset of the four fields.               *)
(***************************************************************************)
Mappings == {[f \in S |-> d[f]] : d \in Drafts, S \in SUBSET Fields}

InitForm ==
    /\ formData \in Mappings
    /\ errors = NoErrors
    /\ remote = <<>>
    /\ employees = <<>>
    /\ loading = FALSE
    /\ error = <<>>
    /\ retrying = FALSE
    /\ showForm = FALSE
    /\ editingEmployee = <<>>
    /\ formLoading = FALSE
    /\ searchTerm = <<>>
    /\ departmentFilter = <<>>
    /\ sortConfig = <<>>
    /\ currentPage = 1
    /\ pageSize = 10
    /\ touched = {}
    /\ submitAttempted = FALSE
    /\ fetches = 0
    /\ saves = <<>>
    /\ deletes = <<>>
    /\ calls = [fetch |-> 0, save |-> 0, delete |-> 0]

\* const errors = validateEmployeeForm(formData)
ValidateFormCall ==
    /\ errors = NoErrors
    /\ errors' = ValidateEmployeeForm(formData)
    /\ UNCHANGED <<employees, loading, error, retrying, showForm, editingEmployee,
                   formLoading, viewVars, formData, touched, submitAttempted, callVars>>

NextForm == ValidateFormCall

SpecForm == InitForm /\ [][NextForm]_vars

(***************************************************************************)
(* Properties.                                                             *)
(***************************************************************************)
Asc(key)  == <<[key |-> key, direction |-> "asc"]>>
Desc(key) == <<[key |-> key, direction |-> "desc"]>>

\* One selection of a column applied to a view v = [sort, page]: handleSort
\* followed by the reset effect, with the filters unchanged.
Click(v, key) ==
    LET next == SortAfterClick(v.sort, key)
    IN  [sort |-> next,
         page |-> PageAfterEffect(<<searchTerm, departmentFilter, v.sort>>,
                                  <<searchTerm, departmentFilter, next>>, v.page)]

ThreeClicks(key) ==
    Click(Click(Click([sort |-> sortConfig, page |-> currentPage], key), key), key)

\* C1: handleSort(column) is a three-state cycle.  From no sort or a sort on
\* another column it yields (column, asc); from (column, asc) it yields
\* (column, desc); from (column, desc) it yields no sort; so three
\* selections of one column starting from no sort end with no sort.
C1_SortCycle ==
    [][\A key \in SortKeys :
         HandleSort(key) =>
           /\ (sortConfig = <<>> \/ sortConfig[1].key # key) => sortConfig' = Asc(key)
           /\ sortConfig = Asc(key)  => sortConfig' = Desc(key)
           /\ sortConfig = Desc(key) => sortConfig' = <<>>
           /\ sortConfig = Desc(key) => ThreeClicks(key)'.sort = <<>>]_vars

\* The second selection of the name column has been made.
C1_Witness == sortConfig = Desc("name")

\* C2: a step that changes the search term, the department filter, the sort
\* state or the page size leaves the page index at 1.
C2_PageResetOnViewChange ==
    [][(\/ searchTerm' # searchTerm
        \/ departmentFilter' # departmentFilter
        \/ sortConfig' # sortConfig
        \/ pageSize' # pageSize) => currentPage' = 1]_vars

\* A sort and a larger page size were chosen on a collection of several pages.
C2_Witness ==
    /\ sortConfig # <<>>
    /\ pageSize = 25
    /\ Len(employees) > 10
    /\ currentPage = 1

RECURSIVE ConcatPages(_, _, _)
ConcatPages(s, size, upto) ==
    IF upto = 0 THEN <<>>
    ELSE ConcatPages(s, size, upto - 1) \o Paginate(s, upto, size)

\* C4: totalPages is the ceiling of n / s (0 for n = 0, with an empty page),
\* page i is the contiguous slice starting at (i-1)*s of at most s records,
\* and the pages 1..totalPages concatenated are the whole sequence.
C4_PaginationCovers ==
    LET out == sortedEmployees
        n   == Len(out)
        s   == pageSize
        tp  == TotalPages(n, s)
    IN  /\ tp = totalPages
        /\ tp * s >= n
        /\ tp >= 0
        /\ tp > 0 => (tp - 1) * s < n
        /\ n = 0 => tp = 0 /\ paginatedEmployees = <<>>
        /\ \A i \in 1..tp :
             LET pg == Paginate(out, i, s)
             IN  /\ Len(pg) >= 1
                 /\ Len(pg) <= s
                 /\ i < tp => Len(pg) = s
                 /\ \A j \in 1..Len(pg) : pg[j] = out[(i - 1) * s + j]
        /\ currentPage \in 1..tp =>
             paginatedEmployees = SubSeq(out, (currentPage - 1) * s + 1,
                                         Min({currentPage * s, n}))
        /\ ConcatPages(out, s, tp) = out

\* The last of three pages is shown, and it is a partial page.
C4_Witness ==
    /\ totalPages = 3
    /\ currentPage = 3
    /\ Len(paginatedEmployees) \in 1..(pageSize - 1)

\* C5: handlePageChange(p) with p outside 1..totalPages changes nothing;
\* with p inside it sets the page index to p and changes nothing else.
C5_PageChangeGuard ==
    [][LET total == totalPages
       IN  \A page \in 0..(total + 1) :
             HandlePageChange(page) =>
               /\ (page >= 1 /\ page <= total) => currentPage' = page
               /\ (page < 1 \/ page > total) => currentPage' = currentPage
               /\ UNCHANGED <<pageSize, searchTerm, departmentFilter, sortConfig,
                              employees, error>>]_vars

\* The last page was selected: a request for the page after it is out of range.
C5_Witness == totalPages >= 2 /\ currentPage = totalPages

\* C6: the filtered set is the input records, in input order, that satisfy
\* the search condition (when a term is set) and the department condition
\* (when a filter is set).
C6_FilterExact ==
    LET term == Trim(ToLowerCase(searchTerm))
        Hit(e) ==
            \E text \in {e.name, e.email, e.phone, e.company, e.username} :
                Includes(ToLowerCase(text), term)
        Sat(e) ==
            /\ searchTerm # <<>> => Hit(e)
            /\ departmentFilter # <<>> => e.company = departmentFilter
    IN  filteredEmployees = SelectSeq(employees, Sat)

\* Both conditions are set and keep some records but not all.
C6_Witness ==
    /\ searchTerm # <<>>
    /\ departmentFilter # <<>>
    /\ filteredEmployees # <<>>
    /\ Len(filteredEmployees) < Len(employees)

\* The keys of two records compare equal on the active column.
KeyEqual(a, b, key) ==
    IF key = "id" THEN a.id = b.id
    ELSE ToLowerCase(SortValue(a, key)) = ToLowerCase(SortValue(b, key))

PositionIn(s, e) == CHOOSE p \in 1..Len(s) : s[p] = e

\* C7: sorting is stable in both directions: records whose keys compare
\* equal keep their relative order from the filtered input.
C7_SortStable ==
    sortConfig # <<>> =>
        LET in  == filteredEmployees
            out == sortedEmployees
        IN  \A i, j \in 1..Len(in) :
                (i < j /\ KeyEqual(in[i], in[j], sortConfig[1].key))
                    => PositionIn(out, in[i]) < PositionIn(out, in[j])

\* A descending sort over two records with equal keys.
C7_Witness ==
    /\ sortConfig # <<>>
    /\ sortConfig[1].direction = "desc"
    /\ LET in == filteredEmployees
       IN  \E i, j \in 1..Len(in) : i < j /\ KeyEqual(in[i], in[j], sortConfig[1].key)

Occurrences(s, e) == Cardinality({p \in 1..Len(s) : s[p] = e})

\* C8: with a sort state the output is a permutation of the filtered input,
\* ordered by numeric id on the id column and by the lower-cased value on
\* the text columns, increasing for asc and decreasing for desc.
C8_SortOrdered ==
    sortConfig # <<>> =>
        LET key == sortConfig[1].key
            asc == sortConfig[1].direction = "asc"
            in  == filteredEmployees
            out == sortedEmployees
            Low(e) == ToLowerCase(SortValue(e, key))
        IN  /\ Len(out) = Len(in)
            /\ \A p \in 1..Len(out) :
                 Occurrences(out, out[p]) = Occurrences(in, out[p])
            /\ \A p, q \in 1..Len(out) :
                 p < q =>
                   IF key = "id"
                   THEN IF asc THEN out[p].id <= out[q].id ELSE out[p].id >= out[q].id
                   ELSE IF asc THEN ~StrLess(Low(out[q]), Low(out[p]))
                        ELSE ~StrLess(Low(out[p]), Low(out[q]))

\* A descending sort on a text column whose values differ only in case.
C8_Witness ==
    /\ sortConfig = Desc("name")
    /\ LET in == filteredEmployees
       IN  \E i, j \in 1..Len(in) :
               in[i].name # in[j].name /\ KeyEqual(in[i], in[j], "name")

\* C9 as stated: from a state with no sort, the page shown after three
\* selections of one column is the page shown before the first.
C9_ShownAfterThreeClicks ==
    sortConfig = <<>> =>
        LET in    == filteredEmployees
            shown == paginatedEmployees
        IN  \A key \in SortKeys :
                LET after == ThreeClicks(key)
                IN  Paginate(SortEmployees(in, after.sort), after.page, pageSize) = shown

\* C9 amended: after three selections of one column from a state with no
\* sort there is again no sort, the sort stage returns the filtered input
\* in its original order, and the page shown is the first page of it: the
\* page shown before the first selection if that was page 1.
C9_SortedAfterThreeClicks ==
    sortConfig = <<>> =>
        LET in    == filteredEmployees
            out   == sortedEmployees
            shown == paginatedEmployees
        IN  \A key \in SortKeys :
                LET after == ThreeClicks(key)
                IN  /\ after.sort = <<>>
                    /\ SortEmployees(in, after.sort) = in
                    /\ SortEmployees(in, after.sort) = out
                    /\ after.page = 1
                    /\ currentPage = 1 =>
                         Paginate(SortEmployees(in, after.sort), after.page, pageSize) = shown

\* No sort, and the natural order differs from the order by name.
C9_Witness ==
    /\ sortConfig = <<>>
    /\ LET in == filteredEmployees
       IN  /\ Len(in) >= 2
           /\ SortEmployees(in, Asc("name")) # in
           /\ SortEmployees(in, Desc("name")) # in

(***************************************************************************)
(* C3: in every reachable state in which the filtered and sorted set is    *)
(* non-empty, the page index is within 1..totalPages.  The session breaks  *)
(* it: no handler adjusts the page index when the collection shrinks.      *)
(***************************************************************************)
C3_PageIndexInRange ==
    LET sorted == sortedEmployees
    IN  sorted # <<>> => currentPage \in 1..TotalPages(Len(sorted), pageSize)

(***************************************************************************)
(* C10: in every reachable state no two records of the collection have the *)
(* same id.  The session breaks it: a create takes its id from the         *)
(* collection captured at submit time, and a rollback appends the record   *)
(* to whatever the collection has become.                                  *)
(***************************************************************************)
C10_UniqueIds ==
    \A i, j \in 1..Len(employees) : employees[i].id = employees[j].id => i = j

(***************************************************************************)
(* C11: after a successful update of the record with id i the collection   *)
(* holds exactly the same set of ids as before, whatever record the        *)
(* update call returns.  The merge { ...emp, ...updatedEmployee } takes    *)
(* the id of the answer, so an answer with another id breaks it.           *)
(***************************************************************************)
Ids(emps) == {emps[i].id : i \in 1..Len(emps)}

C11_UpdateKeepsIds ==
    [][\A i \in 1..Len(saves) :
          (saves[i].editing # <<>> /\ SaveSucceeds(i)) => Ids(employees') = Ids(employees)]_vars

(***************************************************************************)
(* C12: delete is optimistic with rollback.  A confirmed delete removes    *)
(* the record while its call is in flight; a call that succeeds leaves the *)
(* collection as it is, so the record stays removed; a call that fails     *)
(* puts the record back, leaves the collection in ascending id order and   *)
(* sets the session error to the failure.                                  *)
(***************************************************************************)
Records(emps) == {emps[i] : i \in 1..Len(emps)}

AscendingById(emps) == \A i \in 1..(Len(emps) - 1) : emps[i].id <= emps[i + 1].id

C12_OptimisticDelete ==
    [][/\ calls'.delete # calls.delete =>
            \A employee \in Records(employees) :
                HandleDelete(employee, TRUE, TRUE) =>
                    /\ employee.id \notin Ids(employees')
                    /\ deletes' = Append(deletes, employee)
       /\ Len(deletes') < Len(deletes) =>
            \A i \in 1..Len(deletes) :
                /\ DeleteSucceeds(i) =>
                       /\ employees' = employees
                       /\ error' = error
                /\ \A apiError \in ApiErrors :
                       DeleteFails(i, apiError) =>
                           /\ deletes[i] \in Records(employees')
                           /\ AscendingById(employees')
                           /\ error' = <<apiError>>]_vars

\* A delete call has failed after the only fetch succeeded: the error comes
\* from the delete, and the collection is whole again.
C12_Witness ==
    /\ calls = [fetch |-> 1, save |-> 0, delete |-> 1]
    /\ fetches = 0 /\ deletes = <<>>
    /\ error # <<>>
    /\ employees = GetEmployees(remote)

(***************************************************************************)
(* C13: a delete whose confirmation prompt is answered no issues no delete *)
(* call and leaves the collection, the error and the view query as they    *)
(* are; a delete call is issued only by a delete whose two prompts (the    *)
(* table's and the session's) were both answered yes.                      *)
(***************************************************************************)
C13_DeleteNeedsConfirmation ==
    [][/\ \A employee \in Records(employees) : \A inTable, inApp \in BOOLEAN :
              (~(inTable /\ inApp) /\ HandleDelete(employee, inTable, inApp)) =>
                  /\ deletes' = deletes /\ calls' = calls
                  /\ employees' = employees /\ error' = error
                  /\ UNCHANGED viewVars
       /\ (calls'.delete # calls.delete \/ Len(deletes') > Len(deletes)) =>
              \E employee \in Records(employees) :
                  /\ HandleDelete(employee, TRUE, TRUE)
                  /\ deletes' = Append(deletes, employee)]_vars

\* A delete call is in flight and the table shows a row whose delete
\* prompts can be answered.
C13_Witness ==
    /\ deletes # <<>>
    /\ PageOperable /\ ~loading
    /\ RowsUsed # {}

(***************************************************************************)
(* C14: no create or update call is attempted while a field is invalid.    *)
(* Every request in flight carries a draft that validateEmployeeForm       *)
(* reports valid in all four fields; a submit with an invalid field issues *)
(* no request and only records the validation errors.                      *)
(***************************************************************************)
AllValid(data) ==
    LET results == ValidateEmployeeForm(data)
    IN  DOMAIN results = Fields /\ \A f \in Fields : results[f].isValid

C14_NoSaveWhileInvalid ==
    [][/\ Len(saves') > Len(saves) =>
            /\ HandleSubmit
            /\ saves' = Append(saves, saves'[Len(saves')])
            /\ saves'[Len(saves')].data = formData
            /\ AllValid(formData)
       /\ (HandleSubmit /\ ~AllValid(formData)) =>
            /\ saves' = saves /\ calls' = calls /\ formLoading' = formLoading
            /\ employees' = employees /\ error' = error
            /\ formData' = formData /\ showForm' = showForm
            /\ errors' = ValidateEmployeeForm(formData)
            /\ submitAttempted' /\ touched' = Fields]_vars

\* A submit with an invalid field has been made: the form is open with the
\* errors recorded and no request was issued.
C14_Witness ==
    /\ showForm /\ submitAttempted /\ ~formLoading
    /\ ~AllValid(formData)
    /\ errors = ValidateEmployeeForm(formData)
    /\ saves = <<>> /\ calls.save = 0

(***************************************************************************)
(* C15: form submission is non-reentrant.  A valid submit puts the form in *)
(* the submitting state; while its request is outstanding the form is      *)
(* submitting, the submit control is disabled and cancel is refused, so    *)
(* one request at most is outstanding; when the request settles the        *)
(* submitting state is cleared.                                            *)
(***************************************************************************)
Submitting ==
    saves # <<>> =>
        /\ Len(saves) = 1
        /\ showForm /\ formLoading
        /\ IsSubmitDisabled                  \* no further submit
        /\ ~(showForm /\ ~formLoading)       \* the guard of handleCancel

C16_FailureReachesErrorSlot ==
    [][/\ \A apiError \in ApiErrors : FetchFails(apiError) => error' = <<apiError>>
       /\ \A i \in 1..Len(deletes) : \A apiError \in ApiErrors :
              DeleteFails(i, apiError) => error' = <<apiError>>
       /\ \A i \in 1..Len(saves) :
              SaveFails(i) => error' \in {<<apiError>> : apiError \in ApiErrors}
       /\ (error # <<>> /\ error' = <<>>) =>
              HandleDismissError \/ Refresh \/ HandleRetry]_vars

(***************************************************************************)
(* C17: the retry action of the error banner re-issues the operation whose *)
(* failure set the error: a fetch after a failed fetch, the delete of the  *)
(* record again after a failed delete.  The session breaks the second:     *)
(* handleRetry always fetches.                                             *)
(***************************************************************************)
\* No delete was issued, so the error shown was set by a failed fetch.
ErrorFromFetch == error # <<>> /\ calls.delete = 0

\* The only fetch succeeded (the collection is loaded) and a delete has
\* settled, so the error shown was set by the failed delete of a record,
\* which the rollback has put back into the collection.
ErrorFromDelete ==
    /\ error # <<>>
    /\ calls.fetch = 1 /\ fetches = 0 /\ employees # <<>>
    /\ calls.delete > 0 /\ deletes = <<>>

C17_RetryReissues ==
    [][HandleRetry =>
          /\ ErrorFromFetch =>
                 /\ fetches' = fetches + 1
                 /\ deletes' = deletes
          /\ ErrorFromDelete =>
                 \E r \in Records(employees) :
                     deletes' = Append(deletes, r)]_vars

(***************************************************************************)
(* C18: handleClearFilters resets the view query.                          *)
(***************************************************************************)
\* C18 as stated: after handleClearFilters the search term and the
\* department filter are empty, there is no sort, the page index is 1 and
\* the page size is its default (10); the collection is unchanged and the
\* view shows the first page of the whole collection in natural order.
C18_ClearResetsViewQuery ==
    [][HandleClearFilters =>
          /\ searchTerm' = <<>> /\ departmentFilter' = <<>> /\ sortConfig' = <<>>
          /\ currentPage' = 1
          /\ pageSize' = 10
          /\ employees' = employees
          /\ paginatedEmployees' = Paginate(employees, 1, 10)]_vars

\* C18 amended: after handleClearFilters the search term and the department
\* filter are empty, there is no sort and the page index is 1; the page
\* size is the one selected before; the collection is unchanged and the
\* view shows the first page, at that page size, of the whole collection
\* in natural order.
C18_ClearKeepsPageSize ==
    [][HandleClearFilters =>
          /\ searchTerm' = <<>> /\ departmentFilter' = <<>> /\ sortConfig' = <<>>
          /\ currentPage' = 1
          /\ pageSize' = pageSize
          /\ employees' = employees
          /\ filteredEmployees' = employees /\ sortedEmployees' = employees
          /\ paginatedEmployees' = Paginate(employees, 1, pageSize)]_vars

\* Filters and a sort are set at a page size other than the default, and
\* the filtered set is smaller than the collection: clearing is possible
\* and changes what is shown.
C18_Witness ==
    /\ searchTerm # <<>> /\ departmentFilter # <<>> /\ sortConfig # <<>>
    /\ pageSize = 25
    /\ Len(filteredEmployees) < Len(employees)

(***************************************************************************)
(* C19: every result of validateRequired, validateEmail, validatePhone,    *)
(* validateName and validateDepartment, and so every entry of              *)
(* validateEmployeeForm, has an empty message exactly when it is valid,    *)
(* for every input, the empty and the blank ones included.                 *)
(***************************************************************************)
MessageIffInvalid(result) == (result.message = "") <=> result.isValid

C19_MessageIffInvalid ==
    /\ \A f \in Fields :
           LET value == formData[f]
           IN  /\ \A fieldName \in FieldNames :
                      MessageIffInvalid(ValidateRequired(value, fieldName))
               /\ MessageIffInvalid(ValidateEmail(value))
               /\ MessageIffInvalid(ValidatePhone(value))
               /\ MessageIffInvalid(ValidateName(value))
               /\ MessageIffInvalid(ValidateDepartment(value))
    /\ \A f \in DOMAIN ValidateEmployeeForm(formData) :
           MessageIffInvalid(ValidateEmployeeForm(formData)[f])
    /\ \A f \in DOMAIN errors : MessageIffInvalid(errors[f])

\* The form has been validated with a blank field, an invalid entry and a
\* valid entry among its results.
C19_Witness ==
    /\ errors # NoErrors
    /\ \E f \in Fields : formData[f] # <<>> /\ Trim(formData[f]) = <<>>
    /\ \E f \in Fields : errors[f].isValid /\ errors[f].message = ""
    /\ \E f \in Fields : ~errors[f].isValid /\ errors[f].message # ""

(***************************************************************************)
(* C20: in validatePhone the digit count is checked before the characters. *)
(***************************************************************************)
DigitCount(s) == Cardinality({i \in 1..Len(s) : IsDigit(s[i])})

AllowedInPhone(s) == \A i \in 1..Len(s) : s[i] \in 48..57 \cup {32, 40, 41, 45, 46, 43}

TooFewDigits == [isValid |-> FALSE, message |-> "Phone number must contain at least 10 digits"]
NotAPhone    == [isValid |-> FALSE, message |-> "Please enter a valid phone number"]

C21_InvalidCharacterMessage ==
    \A f \in Fields :
        LET value == formData[f]
        IN  (value # <<>> /\ ~AllowedInPhone(value)) => ValidatePhone(value) = NotAPhone

(***************************************************************************)
(* C22: malformed email addresses.                                         *)
(***************************************************************************)
\* The part of an address before its first '@' and the part after it.
LocalPart(s)  == Split(s, 64)[1]
DomainPart(s) == SubSeq(s, Len(LocalPart(s)) + 2, Len(s))

NoAt(s)           == \A i \in 1..Len(s) : s[i] # 64
EmptyLocal(s)     == ~NoAt(s) /\ LocalPart(s) = <<>>
EmptyDomain(s)    == ~NoAt(s) /\ DomainPart(s) = <<>>
DotsInLocal(s)    == \E i \in 1..(Len(LocalPart(s)) - 1) : s[i] = 46 /\ s[i + 1] = 46
DomainNoDot(s)    == ~NoAt(s) /\ \A i \in 1..Len(DomainPart(s)) : DomainPart(s)[i] # 46
SpaceInside(s)    == \E i \in 1..Len(s) : s[i] = 32

InvalidEmail ==
    [isValid |-> FALSE,
     message |-> "Please enter a valid email address (e.g., name@example.com)"]

\* C22: validateEmail returns invalid with 'Please enter a valid email
\* address (e.g., name@example.com)' for every address, not blank, that has
\* no '@', an empty local part, an empty domain, two consecutive dots in the
\* local part, a domain with no dot, or a space inside the address.
C22_MalformedEmailInvalid ==
    \A f \in Fields :
        LET s == Trim(formData[f])
        IN  (/\ s # <<>>
             /\ \/ NoAt(s)
                \/ EmptyLocal(s)
                \/ EmptyDomain(s)
                \/ DotsInLocal(s)
                \/ DomainNoDot(s)
                \/ SpaceInside(s)) => ValidateEmail(formData[f]) = InvalidEmail

(***************************************************************************)
(* C23: validateEmployeeForm on a full, partial or empty mapping.          *)
(***************************************************************************)
RequiredOf(f) ==
    CASE f = "name"       -> "Name is required"
      [] f = "email"      -> "Email is required"
      [] f = "phone"      -> "Phone number is required"
      [] f = "department" -> "Department is required"

\* C23: validateEmployeeForm on any mapping returns exactly the four
\* entries name, email, phone and department, each the result of the
\* field's validator on the field's value, a missing field read as the empty
\* string; every missing field is reported invalid with its 'is required'
\* message, and the call changes nothing but the variable that receives the
\* result.
C23_FormValidatorTotal ==
    [][errors' # errors =>
          /\ DOMAIN errors' = {"name", "email", "phone", "department"}
          /\ errors'.name = ValidateName(IF "name" \in DOMAIN formData THEN formData.name ELSE <<>>)
          /\ errors'.email = ValidateEmail(IF "email" \in DOMAIN formData THEN formData.email ELSE <<>>)
          /\ errors'.phone = ValidatePhone(IF "phone" \in DOMAIN formData THEN formData.phone ELSE <<>>)
          /\ errors'.department =
                 ValidateDepartment(IF "department" \in DOMAIN formData
                                    THEN formData.department ELSE <<>>)
          /\ \A f \in Fields \ DOMAIN formData :
                 errors'[f] = [isValid |-> FALSE, message |-> RequiredOf(f)]
          /\ formData' = formData
          /\ UNCHANGED <<employees, loading, error, retrying, showForm, editingEmployee,
                         formLoading, viewVars, touched, submitAttempted, callVars>>]_vars

\* validateEmployeeForm has been called on a mapping that lacks a field and
\* holds a valid one.
C23_Witness ==
    /\ errors # NoErrors
    /\ DOMAIN formData # Fields
    /\ DOMAIN formData # {}
    /\ \E f \in DOMAIN formData : errors[f].isValid
    /\ \E f \in Fields \ DOMAIN formData : ~errors[f].isValid

(***************************************************************************)
(* C24: isFormValid and getFirstErrorMessage.                              *)
(***************************************************************************)
\* msg is the message of the first invalid entry of errs in the order name,
\* email, phone, department, or the empty string when no entry is invalid.
IsFirstErrorOf(msg, errs) ==
    IF \A f \in DOMAIN errs : errs[f].isValid
    THEN msg = ""
    ELSE \/ ~errs.name.isValid /\ msg = errs.name.message
         \/ errs.name.isValid /\ ~errs.email.isValid /\ msg = errs.email.message
         \/ errs.name.isValid /\ errs.email.isValid /\ ~errs.phone.isValid
                /\ msg = errs.phone.message
         \/ errs.name.isValid /\ errs.email.isValid /\ errs.phone.isValid
                /\ msg = errs.department.message

\* C24: isFormValid is true exactly when every entry of the mapping is
\* valid; getFirstErrorMessage returns the message of the first invalid
\* entry in the order name, email, phone, department, or the empty string
\* when no entry is invalid; and on the results of validateEmployeeForm
\* getFirstErrorMessage is empty exactly when isFormValid is true.
C24_FirstErrorAndValidity ==
    LET results == ValidateEmployeeForm(formData)
    IN  /\ IsFormValid(errors) <=> ~(\E f \in DOMAIN errors : ~errors[f].isValid)
        /\ IsFormValid(results) <=> ~(\E f \in Fields : ~results[f].isValid)
        /\ IsFirstErrorOf(GetFirstErrorMessage(errors), errors)
        /\ IsFirstErrorOf(GetFirstErrorMessage(results), results)
        /\ GetFirstErrorMessage(results) = "" <=> IsFormValid(results)

\* validateEmployeeForm has returned two invalid entries with different
\* messages after a valid one.
C24_Witness ==
    /\ errors # NoErrors
    /\ errors.name.isValid
    /\ ~errors.email.isValid
    /\ ~errors.phone.isValid
    /\ errors.email.message # errors.phone.message
    /\ GetFirstErrorMessage(errors) = errors.email.message

(***************************************************************************)
(* C25: a record created from a valid draft gives a valid draft again.     *)
(***************************************************************************)
FourValid(data) ==
    /\ ValidateName(data.name).isValid
    /\ ValidateEmail(data.email).isValid
    /\ ValidatePhone(data.phone).isValid
    /\ ValidateDepartment(data.department).isValid

Fetched == {GetEmployees(remote)[i] : i \in 1..Len(remote)}

\* C25: the record created from a draft d that validateEmployeeForm reports
\* all-valid holds d's name, email and phone and d's department as its
\* company name, and when a record created in the session is loaded into
\* the edit form the form's draft is again reported valid in all four
\* fields.
C25_ValidatorRoundTrip ==
    [][/\ Len(employees') = Len(employees) + 1 =>
            LET d      == saves[1].data
                record == employees'[1]
            IN  /\ FourValid(d)
                /\ record.name = d.name
                /\ record.email = d.email
                /\ record.phone = d.phone
                /\ record.company = d.department
       /\ (~showForm /\ showForm' /\ editingEmployee' # <<>>
             /\ editingEmployee'[1] \notin Fetched) =>
            /\ formData'.name = editingEmployee'[1].name
            /\ formData'.department = editingEmployee'[1].company
            /\ \A f \in Fields : ValidateEmployeeForm(formData')[f].isValid]_vars

\* A record created in the session is open in the edit form and the
\* validator has run on its draft, whose name has a space at one end.
C25_Witness ==
    /\ showForm
    /\ editingEmployee # <<>>
    /\ editingEmployee[1] \notin Fetched
    /\ calls.save = 1
    /\ Len(employees) = Len(remote) + 1
    /\ errors # NoErrors
    /\ \A f \in Fields : errors[f].isValid
    /\ Trim(formData.name) # formData.name

C27_ViewLeavesCollection ==
    [][/\ viewVars' # viewVars => employees' = employees
       /\ employees' # employees =>
              \/ fetches' < fetches
              \/ Len(saves') < Len(saves)
              \/ deletes' # deletes]_vars

\* The view is filtered, sorted into an order other than the collection's
\* and paged by another page size, over the collection as fetched.
C27_Witness ==
    /\ searchTerm # <<>>
    /\ sortConfig # <<>>
    /\ pageSize # 10
    /\ Len(sortedEmployees) > 1
    /\ sortedEmployees # filteredEmployees
    /\ employees = GetEmployees(remote)

(***************************************************************************)
(* C28: when the form's submit control is enabled.                         *)
(***************************************************************************)
\* C28: while the form is shown, its submit control is enabled before the
\* first submit attempt whatever the fields hold; after a submit attempt it
\* is disabled as long as a field is invalid and enabled again once every
\* field is valid, unless a save is in flight; and it is disabled whenever
\* a save is in flight.
C28_SubmitControl ==
    showForm =>
        /\ ~submitAttempted => ~IsSubmitDisabled
        /\ (submitAttempted /\ ~FourValid(formData)) => IsSubmitDisabled
        /\ (submitAttempted /\ FourValid(formData) /\ saves = <<>>) => ~IsSubmitDisabled
        /\ saves # <<>> => IsSubmitDisabled

\* A submit was attempted with an invalid field, which issued no request,
\* and the fields have been made valid since.
C28_Witness ==
    /\ showForm
    /\ submitAttempted
    /\ calls.save = 0
    /\ FourValid(formData)
    /\ ~IsSubmitDisabled

(***************************************************************************)
(* C29: a delete that fails is a no-op on the collection.  The rollback    *)
(* sorts the collection by id, and a created record sits in front of the   *)
(* records with smaller ids, so the order is not the one before the delete.*)
(***************************************************************************)
\* C29: when a delete is started in a collection whose ids are distinct,
\* the rollback of its failure, applied to the collection the delete leaves
\* with no other change in between, gives the same records in the same
\* order as immediately before the delete.
C29_FailedDeleteIsNoOp ==
    [][(/\ calls'.delete # calls.delete
        /\ \A i, j \in 1..Len(employees) : employees[i].id = employees[j].id => i = j) =>
          \A employee \in Records(employees) :
              HandleDelete(employee, TRUE, TRUE) =>
                  CollectionAfterRollback(employees', employee) = employees]_vars

(***************************************************************************)
(* C30: a successful update is never lost.  An update that succeeds while  *)
(* the delete of the same record is in flight finds no record to merge     *)
(* into, and the rollback of the delete puts back the record as it was     *)
(* before the update.                                                      *)
(***************************************************************************)
HoldsUpdated(emps, id, data) ==
    \E r \in Records(emps) : r.id = id /\ DraftOf(r) = data

\* C30: when an update call for record i succeeds with an answer that
\* carries the id i, the collection holds record i with the updated fields;
\* and when a delete fails and rolls back after the only save of the
\* session, an update, has succeeded, the collection still holds the
\* updated record, a record that is not one of the fetched ones.
C30_UpdateNeverLost ==
    [][/\ \A k \in 1..Len(saves) :
              LET call == saves[k]
                  i    == call.editing[1].id
              IN  (/\ call.editing # <<>>
                   /\ SaveSucceeds(k)
                   /\ employees' = CollectionAfterUpdate(employees, call,
                                                         UpdateEmployee(i, call.data))) =>
                      HoldsUpdated(employees', i, call.data)
       /\ (/\ Len(deletes') < Len(deletes)
           /\ error' # <<>>
           /\ ~showForm /\ calls.save = 1 /\ saves = <<>>) =>
              \E r \in Records(employees') : r \notin Fetched]_vars

====
